---- MODULE Spec2Model ----
(***************************************************************************)
(* The ingestion pipeline of leetoffer: the post source (getLatestPosts),  *)
(* the two extraction clients (parsePost of packages/leetcomp, Gemini, and *)
(* of packages/leetoffer, Perplexity), and the two orchestrators (run of   *)
(* packages/leetcomp and of packages/leetoffer, the latter with its        *)
(* SIGINT/SIGTERM handler saveOnExit), run against a local store: Spec.   *)
(* Three units are studied on their own: saveData with the remote backup   *)
(* (SaveSpec), the trigger endpoints (CronSpec) and parsePost on a         *)
(* response text (ParseSpec).                                              *)
(*                                                                         *)
(* One step of the model is the code between two awaits.  Strings are      *)
(* sequences of tokens, so that the concatenation of the merge key is a    *)
(* real concatenation; a nullable number is << >> (null) or <<n>>.         *)
(***************************************************************************)
EXTENDS Integers, Sequences, FiniteSets, TLC

VARIABLES
    impl,               \* which package runs: "leetcomp" or "leetoffer"
    apiKey,             \* the model provider's API key is in the environment
    topId,              \* the forum: posts 1..topId exist, higher id = newer
    votedDown,          \* the forum: id % 3 of the posts whose vote count is negative
    dataFile,           \* parsed_comps.json
    dataTorn,           \* parsed_comps.json was cut in the middle of a write
    metaFile,           \* the metadata file: [lastPostId, totalOffers] or NoMeta
    pc,                 \* position of run()
    existingOffers,     \* run(): loaded dataset
    lastPostId,         \* run(): loaded cursor (<< >> = undefined)
    newParsedOffers,    \* run(): accumulator
    processedCount,     \* run()
    successCount,       \* run()
    lastFetchedPostId,  \* run() (<< >> = undefined)
    apiCallCount,       \* run()
    shouldSaveOnExit,   \* run(), leetoffer
    skip,               \* getLatestPosts
    posts,              \* getLatestPosts: the page being iterated
    idx,                \* getLatestPosts: position of the for loop in posts
    totalFetched,       \* getLatestPosts
    postsProcessed,     \* getLatestPosts
    originalPostCount,  \* getLatestPosts
    retryCount,         \* parsePost: the retryCount of the call in flight
    handler,            \* saveOnExit in flight: [active, offers, cursor]
    result,             \* what run() returned (NoResult before)
    h,                  \* history of the run, read by the properties only
    saveCall,           \* one call of saveData with a remote backup, step by step
    route,              \* the trigger endpoints: environment and requests
    parseCall,          \* one response text and what parsePost makes of it
    loadCall,           \* one call of loadExistingData with a remote backup
    genCall,            \* one fully consumed getLatestPosts sequence
    mergeCall           \* one merge of new offers into a loaded dataset

vars == <<impl, apiKey, topId, votedDown, dataFile, dataTorn, metaFile, pc, existingOffers, lastPostId,
          newParsedOffers, processedCount, successCount, lastFetchedPostId,
          apiCallCount, shouldSaveOnExit, skip, posts, idx, totalFetched,
          postsProcessed, originalPostCount, retryCount, handler, result, h,
          saveCall, route, parseCall, loadCall,
          genCall,
          mergeCall>>

(***************************************************************************)
(* Bounds of the model.  The last four stand for the program's 240, 50,   *)
(* 500 and 2000, scaled down so that a short listing reaches them; the     *)
(* properties are stated with the names.                                   *)
(***************************************************************************)
NumPosts == 3
MaxRuns == 2
MaxFaults == 1
MAX_DAILY_API_CALLS == 2
first == 2
MaxPostsIncremental == 3
MaxPostsFull == 4

\* Program constants.
MaxRetries == 3
BackoffBase == 2

(***************************************************************************)
(* Values.                                                                 *)
(***************************************************************************)
NULLS == <<"NULL">>        \* a null (or undefined) string
NULLN == << >>             \* a null number; the number n is <<n>>
Undefined == << >>         \* an undefined post id; the id n is <<n>>
NoOffers == << >>          \* parsePost's null: it never returns an empty list
NoMeta == [lastPostId |-> Undefined, totalOffers |-> 0]
NoResult == [returned |-> FALSE, processed |-> 0, successful |-> 0,
             totalOffers |-> 0, newOffers |-> 0]
NoStatus == 0              \* an error object without a status property

Min(a, b) == IF a <= b THEN a ELSE b

RECURSIVE Pow2(_)
Pow2(n) == IF n = 0 THEN 1 ELSE 2 * Pow2(n - 1)

SetMax(S) == CHOOSE x \in S : \A y \in S : y <= x

(***************************************************************************)
(* The forum.  The listing is newest first, after the pinned post (id 0).  *)
(***************************************************************************)
Listing(top) == <<0>> \o [i \in 1..top |-> top + 1 - i]

\* post.voteCount: every third post has been voted down
vote_count(id) == IF id % 3 = votedDown THEN 0 - 1 ELSE 1

\* categoryTopicList(skip, first): the edges of one page
PageOf(top, sk) ==
    LET l == Listing(top)
    IN  IF sk >= Len(l) THEN << >> ELSE SubSeq(l, sk + 1, Min(sk + first, Len(l)))

(***************************************************************************)
(* The model provider.  An answer is an HTTP response; status 0 is a       *)
(* transport failure.  A 200 carries a text, a 429 may carry a quota       *)
(* signal and a suggested retry delay in seconds.                          *)
(***************************************************************************)
OfferCo   == [company |-> <<"Acme">>, role |-> NULLS, yoe |-> NULLN,
              base_offer |-> NULLN, total_offer |-> NULLN]
OfferTot  == [company |-> NULLS, role |-> <<"SDE">>, yoe |-> <<2>>,
              base_offer |-> NULLN, total_offer |-> <<100>>]
OfferNone == [company |-> NULLS, role |-> <<"SDE">>, yoe |-> NULLN,
              base_offer |-> NULLN, total_offer |-> NULLN]
\* a compensation of 0 and nothing else
OfferZero == [company |-> NULLS, role |-> <<"SDE">>, yoe |-> <<0>>,
              base_offer |-> NULLN, total_offer |-> <<0>>]
\* a second offer of the company and role of OfferCo, with negative numbers
OfferNeg  == [company |-> <<"Acme">>, role |-> NULLS, yoe |-> <<0 - 1>>,
              base_offer |-> <<0 - 5>>, total_offer |-> NULLN]

\* the offers the model may list for a post
AnswerNoneValid == <<OfferNone, OfferZero>>
AnswerMixed == <<OfferNone, OfferCo, OfferZero, OfferTot, OfferNeg>>

ModelTexts ==
    { [kind |-> k, offers |-> << >>] : k \in {"nofence", "badjson", "badshape"} }
    \cup { [kind |-> "array", offers |-> o] :
              o \in { << >>, AnswerNoneValid, AnswerMixed } }

NoText == [kind |-> "nofence", offers |-> << >>]

\* the seconds the server suggests in the RetryInfo detail of a 429, if any
SuggestedDelays == { NULLN, <<7>> }

\* the retryDelay string of a RetryInfo detail, as "7s"; << >> is no detail
Duration(suggested) ==
    IF suggested = NULLN THEN << >> ELSE <<ToString(suggested[1]), "s">>

Responses ==
    { [status |-> 200, text |-> t, quota |-> FALSE, suggested |-> NULLN] : t \in ModelTexts }
    \cup { [status |-> 429, text |-> NoText, quota |-> q, suggested |-> d] :
              q \in BOOLEAN, d \in SuggestedDelays }
    \cup { [status |-> s, text |-> NoText, quota |-> FALSE, suggested |-> NULLN] :
              s \in {0, 500} }

(***************************************************************************)
(* parsePost: the happy path.                                              *)
(***************************************************************************)
TruthyStr(s) == s # NULLS /\ s # << >>
TruthyNum(n) == n # NULLN /\ n[1] # 0

\* a filter that wants both the company and a compensation
isValidOfferBoth(offer) ==
    TruthyStr(offer.company)
        /\ (TruthyNum(offer.base_offer) \/ TruthyNum(offer.total_offer))

isValidOffer(offer) ==
    LET hasCompany == TruthyStr(offer.company)
        hasCompensation == TruthyNum(offer.base_offer) \/ TruthyNum(offer.total_offer)
    IN  hasCompany \/ hasCompensation

\* [ok, value]: ok is false for the null that parseJsonMarkdown returns, and
\* for a JSON value that is falsy (null, 0, false, ""): "if (!parsedJson)"
parseJsonMarkdown(markdown) ==
    IF markdown.kind \in {"nofence", "badjson", "falsy"}
    THEN [ok |-> FALSE, value |-> markdown]
    ELSE [ok |-> TRUE, value |-> markdown]

\* ParsedOfferSchema on one element: every field is optional; a
\* visa_sponsorship that is present is "yes", "no" or null
ElementOk(e) ==
    "visa_sponsorship" \in DOMAIN e => e.visa_sponsorship \in {"yes", "no", "null"}

\* ParsedContentSchema.safeParse: an array whose elements all pass
SafeParse(value) ==
    IF value.kind = "array" /\ \A i \in DOMAIN value.offers : ElementOk(value.offers[i])
    THEN [success |-> TRUE, data |-> value.offers]
    ELSE [success |-> FALSE, data |-> << >>]

\* parsePost's null, and a list it returns
Null == [null |-> TRUE, offers |-> << >>]
List(offers) == [null |-> FALSE, offers |-> offers]

\* a try block without "if (validOffers.length === 0) return null"
ReturnOfNoEmptyCheck(text) ==
    LET parsedJson == parseJsonMarkdown(text)
        validationResult == SafeParse(parsedJson.value)
        validOffers == SelectSeq(validationResult.data, isValidOffer)
    IN  IF ~parsedJson.ok THEN Null
        ELSE IF ~validationResult.success THEN Null
        ELSE List(validOffers)

\* what the try block of parsePost returns for a response text
ReturnOf(text) ==
    LET parsedJson == parseJsonMarkdown(text)
        validationResult == SafeParse(parsedJson.value)
        validOffers == SelectSeq(validationResult.data, isValidOffer)
    IN  IF ~parsedJson.ok THEN Null
        ELSE IF ~validationResult.success THEN Null
        ELSE IF Len(validOffers) = 0 THEN Null
        ELSE List(validOffers)

\* the same for run(), which takes null and an empty list alike:
\* "if (parsedOffers && parsedOffers.length > 0)"
ParseText(text) ==
    LET parsedOffers == ReturnOf(text)
    IN  IF parsedOffers.null THEN NoOffers ELSE parsedOffers.offers

(***************************************************************************)
(* parsePost: the catch block.  ThrownError is the error object that       *)
(* reaches it: the Gemini SDK throws an error carrying the HTTP status and *)
(* the error details; the Perplexity client throws new Error(message).     *)
(***************************************************************************)
ThrownError(im, resp) ==
    IF im = "leetcomp"
    THEN [status |-> resp.status, quota |-> resp.quota,
          retryDelay |-> Duration(resp.suggested)]
    ELSE [status |-> NoStatus, quota |-> resp.quota, retryDelay |-> << >>]

\* retryDelay.replace("s", ""): the first "s" is removed
ReplaceS(str) ==
    IF \E i \in DOMAIN str : str[i] = "s"
    THEN LET i == CHOOSE j \in DOMAIN str :
                      str[j] = "s" /\ \A k \in 1..(j - 1) : str[k] # "s"
         IN  SubSeq(str, 1, i - 1) \o SubSeq(str, i + 1, Len(str))
    ELSE str

\* parseFloat of a string whose first token is a numeral; 0 stands for NaN
parseFloat(str) ==
    IF str # << >> /\ \E n \in 0..9 : ToString(n) = str[1]
    THEN CHOOSE n \in 0..9 : ToString(n) = str[1]
    ELSE 0

DelaySeconds(im, err, rc) ==
    IF im = "leetcomp" /\ err.retryDelay # << >>
    THEN parseFloat(ReplaceS(err.retryDelay))
    ELSE Pow2(rc) * BackoffBase

\* CatchError with a fourth retry (retryCount <= 3)
CatchErrorFourRetries(im, err, rc) ==
    IF err.status = 429
    THEN IF err.quota /\ rc = 0
         THEN [kind |-> "throw", delay |-> 0]
         ELSE IF rc <= MaxRetries
              THEN [kind |-> "retry", delay |-> DelaySeconds(im, err, rc)]
              ELSE [kind |-> "return", delay |-> 0]
    ELSE [kind |-> "return", delay |-> 0]

\* CatchError rethrowing what is not a 429
CatchErrorRethrows(im, err, rc) ==
    IF err.status = 429
    THEN IF err.quota /\ rc = 0
         THEN [kind |-> "throw", delay |-> 0]
         ELSE IF rc < MaxRetries
              THEN [kind |-> "retry", delay |-> DelaySeconds(im, err, rc)]
              ELSE [kind |-> "return", delay |-> 0]
    ELSE [kind |-> "throw", delay |-> 0]

\* "throw" is QUOTA_EXCEEDED, "retry" is parsePost(post, rc + 1) after the
\* delay, "return" is return null
\* CatchError with the quota check on every attempt
CatchErrorQuotaAlways(im, err, rc) ==
    IF err.status = 429
    THEN IF err.quota
         THEN [kind |-> "throw", delay |-> 0]
         ELSE IF rc < MaxRetries
              THEN [kind |-> "retry", delay |-> DelaySeconds(im, err, rc)]
              ELSE [kind |-> "return", delay |-> 0]
    ELSE [kind |-> "return", delay |-> 0]

CatchError(im, err, rc) ==
    IF err.status = 429
    THEN IF err.quota /\ rc = 0
         THEN [kind |-> "throw", delay |-> 0]
         ELSE IF rc < MaxRetries
              THEN [kind |-> "retry", delay |-> DelaySeconds(im, err, rc)]
              ELSE [kind |-> "return", delay |-> 0]
    ELSE [kind |-> "return", delay |-> 0]

\* what getModel (leetcomp) and getApiKey (leetoffer) throw without a key:
\* an Error with a message only
KeyError == [status |-> NoStatus, quota |-> FALSE, retryDelay |-> << >>]

\* one attempt of parsePost without a key: the throw is inside the try block
NoKeyAttempt(im, rc) ==
    LET c == CatchError(im, KeyError, rc)
    IN  [kind |-> c.kind, delay |-> c.delay, offers |-> NoOffers]

\* one attempt of parsePost on the provider's answer
ParseAttempt(im, resp, rc) ==
    IF resp.status = 200
    THEN [kind |-> "return", delay |-> 0, offers |-> ParseText(resp.text)]
    ELSE LET c == CatchError(im, ThrownError(im, resp), rc)
         IN  [kind |-> c.kind, delay |-> c.delay, offers |-> NoOffers]

(***************************************************************************)
(* The merge of run() and of saveOnExit.                                   *)
(***************************************************************************)
StrOf(s) == IF s = NULLS THEN <<"null">> ELSE s
NumOf(n) == IF n = NULLN THEN <<"null">> ELSE <<ToString(n[1])>>

\* `${offer.company}-${offer.role}-${offer.total_offer}-${offer.post_id}`
KeyOf(offer) ==
    StrOf(offer.company) \o <<"-">> \o StrOf(offer.role) \o <<"-">>
        \o NumOf(offer.total_offer) \o <<"-">> \o <<ToString(offer.post_id)>>

\* a merge without the filter
allNewOffers(existing, new) == new

uniqueNewOffers(existing, new) ==
    LET existingOfferKeys == { KeyOf(existing[i]) : i \in DOMAIN existing }
        Fresh(offer) == KeyOf(offer) \notin existingOfferKeys
    IN  SelectSeq(new, Fresh)

\* a merge that puts the new offers first
MergeNewFirst(existing, new) == uniqueNewOffers(existing, new) \o existing

Merge(existing, new) == existing \o uniqueNewOffers(existing, new)

\* offersWithMetadata
Stamp(offers, id) ==
    [i \in DOMAIN offers |->
        [company |-> offers[i].company, role |-> offers[i].role,
         yoe |-> offers[i].yoe,
         base_offer |-> offers[i].base_offer, total_offer |-> offers[i].total_offer,
         post_id |-> id]]

(***************************************************************************)
(* History of the run.  Nothing of the program reads it.                   *)
(*   runNo        runs started so far, all of them within one day          *)
(*   top          the newest post of the forum when this run started       *)
(*   processed    ids of the posts this run pulled from getLatestPosts and *)
(*                counted (processedCount++)                               *)
(*   skipped      ids of the posts whose body this run failed to fetch      *)
(*   ever         ids processed by any run                                 *)
(*   prev         the run before: its processed ids, and whether its save  *)
(*                wrote the cursor file                                    *)
(*   requests     requests sent to the model provider by this run          *)
(*   parseCalls   parsePost calls started by the loop of this run          *)
(*   callsToday   parsePost calls started by all runs so far               *)
(*   lastWait     of the parsePost call in flight: the last delay slept,   *)
(*                the attempt it followed and the server's suggestion      *)
(*   postRequests requests sent for the parsePost call in flight           *)
(*   lastParse    how the last parsePost call ended: the offers listed by   *)
(*                the model's answer and the offers parsePost returned     *)
(*   stop         why the loop of this run ended                           *)
(*   faults       failed requests to the forum, failed file writes and     *)
(*                interrupt signals so far                                 *)
(*   clean        no such fault and no max-count stop so far               *)
(*   atSignal     the accumulator when the interrupt signal arrived, and     *)
(*   signalSaved  whether the writeFile of saveOnExit succeeded             *)
(*   saves        saves performed by this run; cursorArg the cursor handed *)
(*                to the last of them                                      *)
(***************************************************************************)
NoParse == [post |-> 0, requests |-> 0, cause |-> "none", outcome |-> "none",
            answer |-> << >>, returned |-> << >>]

NoWait == [attempt |-> 0, seconds |-> 0, suggested |-> NULLN]

RunHistory(runNo, top, ever, prev, callsToday, clean, faults) ==
    [runNo |-> runNo, top |-> top, processed |-> {}, skipped |-> {}, ever |-> ever, prev |-> prev,
     requests |-> 0, parseCalls |-> 0, callsToday |-> callsToday,
     lastWait |-> NoWait, postRequests |-> 0,
     lastParse |-> NoParse, stop |-> "none", clean |-> clean, faults |-> faults,
     saves |-> 0, cursorArg |-> Undefined, cursorWritten |-> FALSE,
     atSignal |-> << >>, signalSaved |-> FALSE]

\* the record of the parsePost call that ended is kept for one step only
Settled(hh) ==
    [hh EXCEPT !.lastParse = NoParse, !.lastWait = NoWait, !.postRequests = 0]

\* requests and callsToday are counted up to one past the budget
Counted(n) == IF n > MAX_DAILY_API_CALLS THEN n ELSE n + 1

NoHandler == [active |-> FALSE, wrote |-> FALSE, offers |-> << >>, cursor |-> Undefined]

envVars   == <<impl, apiKey, topId, votedDown>>
storeVars == <<dataFile, dataTorn, metaFile>>
loopVars  == <<existingOffers, lastPostId, newParsedOffers, processedCount,
               successCount, lastFetchedPostId, apiCallCount>>
genVars   == <<skip, posts, idx, totalFetched, postsProcessed, originalPostCount>>
runVars   == <<envVars, pc, loopVars, shouldSaveOnExit, genVars, retryCount,
               handler, result, h>>
\* the state of the studies of one unit each, at rest while run() runs
unitVars  == <<saveCall, route, parseCall, loadCall, genCall, mergeCall>>

\* nothing was ever saved
InitStore ==
    /\ dataFile = << >>
    /\ dataTorn = FALSE
    /\ metaFile = NoMeta

\* the process before its first run
InitProcess ==
    /\ impl \in {"leetcomp", "leetoffer"}
    /\ apiKey \in BOOLEAN
    /\ votedDown \in {1, 2}
    /\ topId = NumPosts - 1
    /\ pc = "idle"
    /\ existingOffers = << >>
    /\ lastPostId = Undefined
    /\ newParsedOffers = << >>
    /\ processedCount = 0
    /\ successCount = 0
    /\ lastFetchedPostId = Undefined
    /\ apiCallCount = 0
    /\ shouldSaveOnExit = TRUE
    /\ skip = 0
    /\ posts = << >>
    /\ idx = 1
    /\ totalFetched = 0
    /\ postsProcessed = 0
    /\ originalPostCount = 0
    /\ retryCount = 0
    /\ handler = NoHandler
    /\ result = NoResult
    /\ h = RunHistory(0, 0, {}, [processed |-> {}, cursorWritten |-> FALSE], 0, TRUE, 0)

InitRun == InitStore /\ InitProcess

NoSaveCall == [at |-> "none"]
NoRoute == [secret |-> FALSE, requests |-> << >>]
NoParseCall == [at |-> "none"]
NoLoadCall == [at |-> "none"]
NoGenCall == [at |-> "none"]
NoMergeCall == [at |-> "none"]

Init ==
    /\ InitRun
    /\ saveCall = NoSaveCall
    /\ route = NoRoute
    /\ parseCall = NoParseCall
    /\ loadCall = NoLoadCall
    /\ genCall = NoGenCall
    /\ mergeCall = NoMergeCall

\* the outcomes of a request that may fail, and the record of a failure
Outcomes == IF h.faults < MaxFaults THEN BOOLEAN ELSE {TRUE}
Fault(hh) == [hh EXCEPT !.faults = @ + 1, !.clean = FALSE]

Resting == pc \in {"idle", "done", "failed", "exited"} /\ ~handler.active

(***************************************************************************)
(* loadExistingData (local store).                                         *)
(***************************************************************************)
\* a file that JSON.parse rejects is loaded as no offers
loadExistingData == [offers |-> IF dataTorn THEN << >> ELSE dataFile, lastPostId |-> metaFile.lastPostId]

\* run(), up to the first request of getLatestPosts; data and meta tell
\* whether the dataset file and the cursor file could be read
Loads(data, meta) ==
    /\ Resting
    /\ h.runNo < MaxRuns
    /\ existingOffers' = IF data THEN loadExistingData.offers ELSE << >>
    /\ newParsedOffers' = << >>
    /\ processedCount' = 0
    /\ successCount' = 0
    /\ lastFetchedPostId' = Undefined
    /\ apiCallCount' = 0
    /\ shouldSaveOnExit' = TRUE
    /\ skip' = 0
    /\ posts' = << >>
    /\ idx' = 1
    /\ totalFetched' = 0
    /\ postsProcessed' = 0
    /\ originalPostCount' = 0
    /\ retryCount' = 0
    /\ result' = NoResult
    /\ pc' = "page"
    /\ lastPostId' = IF meta THEN loadExistingData.lastPostId ELSE Undefined
    /\ h' = RunHistory(h.runNo + 1, topId, h.ever,
                       [processed |-> h.processed, cursorWritten |-> h.cursorWritten],
                       h.callsToday, h.clean /\ data /\ meta,
                       IF data /\ meta THEN h.faults ELSE h.faults + 1)
    /\ UNCHANGED <<envVars, unitVars, storeVars, handler>>

\* a run whose reads of the store succeed
StartRun == Loads(TRUE, TRUE)

\* a run that finds a file of the store and cannot read it: "Failed to load
\* existing offers, starting fresh", "Failed to load metadata, will do full
\* fetch"
StartRunUnread ==
    /\ h.faults < MaxFaults
    /\ \/ Len(dataFile) > 0 /\ Loads(FALSE, TRUE)
       \/ metaFile # NoMeta /\ Loads(TRUE, FALSE)

\* a post is published between two runs
NewPost ==
    /\ Resting
    /\ topId < NumPosts
    /\ topId' = topId + 1
    /\ UNCHANGED <<impl, apiKey, votedDown, unitVars, storeVars, pc, loopVars, shouldSaveOnExit, genVars,
                   retryCount, handler, result, h>>

(***************************************************************************)
(* getLatestPosts.                                                         *)
(***************************************************************************)
MAX_POSTS == IF lastPostId # Undefined THEN MaxPostsIncremental ELSE MaxPostsFull

\* the for-await loop of run() ends: break, or the generator is finished
LoopEnds(reason) ==
    /\ pc' = "merge"
    /\ h' = [Settled(h) EXCEPT !.stop = reason,
                               !.clean = h.clean /\ reason # "maxPosts"]

\* an exception leaves the for-await loop: the outer catch of run()
LoopThrows ==
    /\ pc' = IF impl = "leetoffer" THEN "merge" ELSE "failed"
    /\ h' = [Fault(h) EXCEPT !.stop = "exception"]

\* a generator that shifts every page
BatchShiftedAlways(edges, sk) == Tail(edges)

\* "Remove pinned post, which is the first one (only on first page)"
Batch(edges, sk) == IF sk = 0 THEN Tail(edges) ELSE edges

\* the answer to the page request of the while loop
FetchPage ==
    /\ pc = "page"
    /\ \E ok \in Outcomes :
         IF ~ok
         THEN /\ LoopThrows
              /\ UNCHANGED genVars
         ELSE LET edges == PageOf(topId, skip)
              IN  IF Len(edges) = 0
                  THEN /\ LoopEnds("endOfData")
                       /\ UNCHANGED genVars
                  ELSE /\ originalPostCount' = Len(edges)
                       /\ posts' = Batch(edges, skip)
                       /\ idx' = 1
                       /\ postsProcessed' = 0
                       /\ pc' = "gen"
                       /\ UNCHANGED <<skip, totalFetched, h>>
    /\ UNCHANGED <<envVars, unitVars, storeVars, loopVars, shouldSaveOnExit, retryCount,
                   handler, result>>

\* a generator that ignores the cursor
CursorHitNever(id) == FALSE

\* a cursor test that lets the post of the cursor through
CursorHitBelow(id) == lastPostId # Undefined /\ id < lastPostId[1]

CursorHit(id) == lastPostId # Undefined /\ id <= lastPostId[1]

\* the head of the for loop over the page, and what follows the loop
GenNext ==
    /\ pc = "gen"
    /\ LET more == idx <= Len(posts)
           full == totalFetched >= MAX_POSTS
           foundLastPost == more /\ ~full /\ CursorHit(posts[idx])
       IN  IF more /\ ~full /\ ~foundLastPost
           THEN \* getPostContent is requested
                /\ pc' = "content"
                /\ h' = Settled(h)
                /\ UNCHANGED skip
           ELSE IF originalPostCount < first
                   \/ (postsProcessed = 0 /\ originalPostCount > 0)
                THEN /\ LoopEnds(IF foundLastPost THEN "cursor"
                                 ELSE IF more THEN "maxPosts" ELSE "endOfData")
                     /\ UNCHANGED skip
                ELSE /\ skip' = skip + first
                     /\ IF ~full /\ ~foundLastPost
                        THEN pc' = "page" /\ h' = Settled(h)
                        ELSE LoopEnds(IF foundLastPost THEN "cursor" ELSE "maxPosts")
    /\ UNCHANGED <<envVars, unitVars, storeVars, loopVars, shouldSaveOnExit, posts, idx,
                   totalFetched, postsProcessed, originalPostCount, retryCount,
                   handler, result>>

\* the generator is resumed after its yield
Resumed ==
    /\ totalFetched' = totalFetched + 1
    /\ postsProcessed' = postsProcessed + 1
    /\ idx' = idx + 1
    /\ pc' = "gen"
    /\ UNCHANGED <<skip, posts, originalPostCount>>

(***************************************************************************)
(* The body of the for-await loop of run().                                *)
(***************************************************************************)
\* the budget check one call early: the call that would reach the cap is
\* not made
BudgetReachedOffByOne(count) == count + 1 >= MAX_DAILY_API_CALLS

\* "Check quota before making API call"
BudgetReached(count) == count >= MAX_DAILY_API_CALLS

\* an inner catch that goes on with the next post
AfterQuotaContinue == "gen"

\* where run() goes on when parsePost has thrown QUOTA_EXCEEDED: the inner
\* catch breaks out of the loop
AfterQuota == "merge"

\* a loop that sends the voted-down posts to parsePost as well
SkipsPostNever(id) == FALSE

\* "Skipping due to negative votes."
SkipsPost(id) == vote_count(id) < 0

\* the answer to getPostContent; on success the post is yielded and the loop
\* body runs up to the model request of parsePost
GetPostContent ==
    /\ pc = "content"
    /\ \E ok \in Outcomes :
         LET id == posts[idx]
             negative == SkipsPost(id)
         IN  IF ~ok
             THEN \* "Skipping post": continue
                  /\ idx' = idx + 1
                  /\ pc' = "gen"
                  /\ h' = [Fault(h) EXCEPT !.skipped = @ \cup {id}]
                  /\ UNCHANGED <<loopVars, skip, posts, totalFetched,
                                 postsProcessed, originalPostCount, retryCount>>
             ELSE IF BudgetReached(apiCallCount)
             THEN /\ LoopEnds("budget")
                  /\ UNCHANGED <<loopVars, genVars, retryCount>>
             ELSE /\ processedCount' = processedCount + 1
                  /\ lastFetchedPostId' = <<id>>
                  /\ IF negative
                     THEN /\ Resumed
                          /\ h' = [h EXCEPT !.processed = @ \cup {id},
                                            !.ever = @ \cup {id}]
                          /\ UNCHANGED <<apiCallCount, retryCount>>
                     ELSE /\ apiCallCount' = apiCallCount + 1
                          /\ retryCount' = 0
                          /\ pc' = "calling"
                          /\ h' = [h EXCEPT !.processed = @ \cup {id},
                                            !.ever = @ \cup {id},
                                            !.requests = IF apiKey THEN Counted(@) ELSE @,
                                            !.parseCalls = @ + 1,
                                            !.callsToday = Counted(@),
                                            !.lastWait = NoWait,
                                            !.postRequests = 1]
                          /\ UNCHANGED genVars
                  /\ UNCHANGED <<existingOffers, lastPostId, newParsedOffers,
                                 successCount>>
    /\ UNCHANGED <<envVars, unitVars, storeVars, shouldSaveOnExit, handler, result>>

Cause(resp) ==
    IF resp.status = 200
    THEN (IF resp.text.kind = "array" THEN "ok" ELSE "malformed")
    ELSE IF resp.status = 429 THEN (IF resp.quota THEN "quota429" ELSE "rate429")
    ELSE "other"

\* the provider answers the request of parsePost(post, retryCount)
ModelCall ==
    /\ pc = "calling"
    /\ \E resp \in Responses :
         LET id == posts[idx]
             a == IF apiKey THEN ParseAttempt(impl, resp, retryCount)
                  ELSE NoKeyAttempt(impl, retryCount)
             ended(outcome) == [post |-> id, requests |-> h.postRequests,
                                cause |-> IF apiKey THEN Cause(resp) ELSE "nokey",
                                outcome |-> outcome,
                                answer |-> IF apiKey /\ resp.status = 200
                                           THEN resp.text.offers ELSE << >>,
                                returned |-> a.offers]
         IN  CASE a.kind = "retry" ->
                    \* sleep(delaySeconds * 1000), then parsePost(post, retryCount + 1)
                    /\ retryCount' = retryCount + 1
                    /\ h' = [h EXCEPT !.requests = Counted(@),
                                      !.postRequests = @ + 1,
                                      !.lastWait = [attempt |-> retryCount,
                                                    seconds |-> a.delay,
                                                    suggested |-> resp.suggested]]
                    /\ UNCHANGED <<pc, loopVars, genVars>>
               [] a.kind = "throw" ->
                    \* QUOTA_EXCEEDED: the inner catch of run() breaks
                    /\ pc' = AfterQuota
                    /\ h' = [h EXCEPT !.stop = "quota",
                                      !.lastParse = ended("QUOTA_EXCEEDED")]
                    /\ UNCHANGED <<loopVars, genVars, retryCount>>
               [] a.kind = "return" ->
                    /\ IF Len(a.offers) > 0
                       THEN /\ successCount' = successCount + 1
                            /\ newParsedOffers' = newParsedOffers \o Stamp(a.offers, id)
                       ELSE UNCHANGED <<successCount, newParsedOffers>>
                    /\ Resumed
                    /\ h' = [h EXCEPT !.lastParse =
                                ended(IF Len(a.offers) > 0 THEN "offers" ELSE "null")]
                    /\ UNCHANGED <<existingOffers, lastPostId, processedCount,
                                   lastFetchedPostId, apiCallCount, retryCount>>
    /\ UNCHANGED <<envVars, unitVars, storeVars, shouldSaveOnExit, handler, result>>

(***************************************************************************)
(* Saving.                                                                 *)
(***************************************************************************)
Metadata(allOffers, cursor) == [lastPostId |-> cursor, totalOffers |-> Len(allOffers)]

\* saveData of packages/leetoffer: both writes are in their own try/catch
saveData(allOffers, cursor, dataOk, metaOk) ==
    /\ dataFile' = IF dataOk THEN allOffers ELSE dataFile
    /\ dataTorn' = (dataTorn /\ ~dataOk)
    /\ metaFile' = IF cursor # Undefined /\ metaOk
                   THEN Metadata(allOffers, cursor)
                   ELSE metaFile

\* counts that report every accumulated offer as new
CountsAccumulated(allOffers, unique) ==
    [returned |-> TRUE, processed |-> processedCount, successful |-> successCount,
     totalOffers |-> Len(allOffers), newOffers |-> Len(newParsedOffers)]

Counts(allOffers, unique) ==
    [returned |-> TRUE, processed |-> processedCount, successful |-> successCount,
     totalOffers |-> Len(allOffers), newOffers |-> Len(unique)]

\* run() after the loop: merge, save, return
RunSave ==
    /\ pc = "merge"
    /\ \E dataOk \in Outcomes, metaOk \in Outcomes :
         LET unique == uniqueNewOffers(existingOffers, newParsedOffers)
             allOffers == Merge(existingOffers, newParsedOffers)
             cursor == lastFetchedPostId
             allWritten == dataOk /\ (cursor = Undefined \/ metaOk)
         IN  IF impl = "leetoffer"
             THEN /\ shouldSaveOnExit' = FALSE
                  /\ saveData(allOffers, cursor, dataOk, metaOk)
                  /\ pc' = "done"
                  /\ result' = Counts(allOffers, unique)
                  /\ h' = [Settled(h) EXCEPT
                                    !.saves = @ + 1,
                                    !.cursorArg = cursor,
                                    !.cursorWritten = @ \/ (cursor # Undefined /\ metaOk),
                                    !.faults = IF allWritten THEN @ ELSE @ + 1,
                                    !.clean = @ /\ allWritten]
             ELSE \* packages/leetcomp: a failed writeFile rejects run()
                  /\ UNCHANGED shouldSaveOnExit
                  /\ dataFile' = IF dataOk THEN allOffers ELSE dataFile
                  /\ dataTorn' = (dataTorn /\ ~dataOk)
                  /\ metaFile' = IF dataOk /\ cursor # Undefined /\ metaOk
                                 THEN Metadata(allOffers, cursor)
                                 ELSE metaFile
                  /\ pc' = IF allWritten THEN "done" ELSE "failed"
                  /\ result' = IF allWritten THEN Counts(allOffers, unique) ELSE NoResult
                  /\ h' = [Settled(h) EXCEPT
                                    !.saves = @ + 1,
                                    !.cursorArg = IF dataOk THEN cursor ELSE @,
                                    !.cursorWritten = dataOk /\ cursor # Undefined /\ metaOk,
                                    !.faults = IF allWritten THEN @ ELSE @ + 1,
                                    !.clean = @ /\ allWritten]
    /\ UNCHANGED <<envVars, unitVars, loopVars, genVars, retryCount, handler>>

\* SIGINT or SIGTERM while run() awaits in its loop: saveOnExit up to the
\* writeFile of its saveData.  run() is not stopped: it goes on when what it
\* awaits is settled.
SaveOnExit ==
    /\ impl = "leetoffer"
    /\ pc \in {"page", "content", "calling"}
    /\ shouldSaveOnExit
    /\ h.faults < MaxFaults
    /\ shouldSaveOnExit' = FALSE
    /\ handler' = [active |-> TRUE, wrote |-> FALSE,
                   offers |-> Merge(existingOffers, newParsedOffers),
                   cursor |-> lastFetchedPostId]
    /\ h' = [Fault(h) EXCEPT !.atSignal = newParsedOffers, !.signalSaved = FALSE]
    /\ UNCHANGED <<envVars, unitVars, storeVars, pc, loopVars, genVars, retryCount, result>>

\* saveOnExit: the writeFile of the dataset is settled; the handler goes on
\* to the remote copy and the metadata
SaveOnExitWrote ==
    /\ handler.active
    /\ ~handler.wrote
    /\ \E dataOk \in Outcomes :
         /\ dataFile' = IF dataOk THEN handler.offers ELSE dataFile
         /\ dataTorn' = (dataTorn /\ ~dataOk)
         /\ h' = [h EXCEPT !.signalSaved = dataOk,
                           !.faults = IF dataOk THEN @ ELSE @ + 1]
    /\ handler' = [handler EXCEPT !.wrote = TRUE]
    /\ UNCHANGED <<envVars, unitVars, metaFile, pc, loopVars, shouldSaveOnExit, genVars,
                   retryCount, result>>

\* what process.exit(0) leaves of a writeFile of run() that is in flight: the
\* file as it was, an empty or cut file, or the whole of run()'s dataset
ExitOutcomes == IF pc = "merge" THEN {"untouched", "cut", "whole"} ELSE {"untouched"}

\* saveOnExit: the metadata is written and process.exit(0) ends the process,
\* with whatever run() has in flight
SaveOnExitDone ==
    /\ handler.active
    /\ handler.wrote
    /\ \E metaOk \in Outcomes, left \in ExitOutcomes :
         /\ metaFile' = IF handler.cursor # Undefined /\ metaOk
                        THEN Metadata(handler.offers, handler.cursor)
                        ELSE metaFile
         /\ dataFile' = CASE left = "untouched" -> dataFile
                          [] left = "cut" -> << >>
                          [] left = "whole" -> Merge(existingOffers, newParsedOffers)
         /\ dataTorn' = IF left = "untouched" THEN dataTorn ELSE left = "cut"
         /\ h' = [Settled(h) EXCEPT
                           !.saves = @ + 1,
                           !.cursorArg = handler.cursor,
                           !.cursorWritten = @ \/ (handler.cursor # Undefined /\ metaOk),
                           !.faults = IF metaOk THEN @ ELSE @ + 1]
    /\ pc' = "exited"
    /\ handler' = NoHandler
    /\ UNCHANGED <<envVars, unitVars, loopVars, shouldSaveOnExit, genVars, retryCount, result>>

Next ==
    \/ StartRun
    \/ NewPost
    \/ FetchPage
    \/ GenNext
    \/ GetPostContent
    \/ ModelCall
    \/ RunSave
    \/ SaveOnExit
    \/ SaveOnExitWrote
    \/ SaveOnExitDone

Spec == Init /\ [][Next]_vars

\* the runs of Spec, and runs that cannot read the cursor file
NextUnread ==
    \/ Next
    \/ StartRunUnread

\* one pattern of votes: the reads of the store do not depend on them
UnreadInit == Init /\ votedDown = 1

UnreadSpec == UnreadInit /\ [][NextUnread]_vars

TypeOK ==
    /\ pc \in {"idle", "page", "gen", "content", "calling", "merge", "done", "failed", "exited"}
    /\ retryCount \in 0..MaxRetries

(***************************************************************************)
(* saveData of packages/leetoffer with the remote backup (a GitHub Gist),  *)
(* one step per await.  saveCall is                                        *)
(*   at         the await saveData is at, "returned", or "threw"           *)
(*   allOffers, cursor   the arguments (cursor is lastFetchedPostId)       *)
(*   gistEnv    GIST_ID and GITHUB_TOKEN are both set                      *)
(*   gistFile, gistMeta   parsed_comps.json and .leetoffer_metadata.json   *)
(*              of the Gist                                                *)
(*   local, meta   how the two local writes ended                          *)
(*   sent       the requests sent to the GitHub API so far                 *)
(*   verified   the owner and the scope of the token were both checked     *)
(*   remote     how the PATCH of the dataset to the Gist ended             *)
(*   response   the answer of GET /api/cron to the run that made the call  *)
(*              and found right                                            *)
(***************************************************************************)
\* the trigger endpoint has not answered
NoResponse == [status |-> 0, success |-> FALSE]

SaveDatasets ==
    { << >>, Stamp(<<OfferCo>>, 1), Stamp(<<OfferCo, OfferTot>>, 1) }

SaveCalls ==
    { [at |-> "local", allOffers |-> o, cursor |-> c, gistEnv |-> g,
       gistFile |-> << >>, gistMeta |-> NoMeta,
       local |-> "pending", meta |-> "pending", remote |-> "pending",
       sent |-> {}, verified |-> FALSE, response |-> NoResponse] :
         o \in SaveDatasets, c \in {Undefined, <<1>>}, g \in BOOLEAN }

SaveInit ==
    /\ InitRun
    /\ impl = "leetoffer"
    /\ apiKey
    /\ votedDown = 1
    /\ saveCall \in SaveCalls
    /\ route = NoRoute
    /\ parseCall = NoParseCall
    /\ loadCall = NoLoadCall
    /\ genCall = NoGenCall
    /\ mergeCall = NoMergeCall

\* what follows the Gist section: "if (lastFetchedPostId)"
AfterGist == IF saveCall.cursor # Undefined THEN "meta" ELSE "returned"

\* a catch of the Gist section that lets the error out of saveData
GistCatchRethrows == "threw"

\* the catch of the Gist section: "Don't throw - allow the function to
\* complete even if Gist save fails"
GistCatch == AfterGist

\* where saveData goes on after its first try/catch
AfterLocal == IF saveCall.gistEnv THEN "read" ELSE AfterGist

\* the answers of the GitHub API to GET /user: the request fails, a status
\* that is not ok, or the login and the scopes of the token
UserResponses ==
    { [thrown |-> TRUE, ok |-> FALSE, owner |-> FALSE, gistScope |-> FALSE],
      [thrown |-> FALSE, ok |-> FALSE, owner |-> FALSE, gistScope |-> FALSE] }
    \cup { [thrown |-> FALSE, ok |-> TRUE, owner |-> o, gistScope |-> sc] :
              o \in BOOLEAN, sc \in BOOLEAN }

\* the outcomes of a request whose response.ok is tested
HttpOutcomes == {"ok", "notOk", "thrown"}

\* await writeFile(outputPath, ...) in the first try block
SaveLocal ==
    /\ saveCall.at = "local"
    /\ \E ok \in BOOLEAN :
         /\ dataFile' = IF ok THEN saveCall.allOffers ELSE dataFile
         /\ saveCall' = [saveCall EXCEPT !.at = AfterLocal,
                                         !.local = IF ok THEN "ok" ELSE "failed"]
    /\ UNCHANGED <<runVars, dataTorn, metaFile, route, parseCall, loadCall, genCall, mergeCall>>

\* "verify we can read the Gist": GET /gists/GIST_ID
GistRead ==
    /\ saveCall.at = "read"
    /\ \E out \in HttpOutcomes :
         saveCall' = [saveCall EXCEPT !.at = IF out = "ok" THEN "user" ELSE GistCatch,
                                      !.sent = @ \cup {"read"}]
    /\ UNCHANGED <<runVars, storeVars, route, parseCall, loadCall, genCall, mergeCall>>

\* "Verify token belongs to the Gist owner": GET /user.  A response that is
\* not ok is only warned about.
GistUser ==
    /\ saveCall.at = "user"
    /\ \E resp \in UserResponses :
         LET refused == resp.thrown \/ (resp.ok /\ ~(resp.owner /\ resp.gistScope))
         IN  saveCall' = [saveCall EXCEPT
                              !.at = IF refused THEN GistCatch ELSE "patch",
                              !.sent = @ \cup {"user"},
                              !.verified = resp.ok /\ resp.owner /\ resp.gistScope]
    /\ UNCHANGED <<runVars, storeVars, route, parseCall, loadCall, genCall, mergeCall>>

\* PATCH /gists/GIST_ID with parsed_comps.json
GistPatch ==
    /\ saveCall.at = "patch"
    /\ \E out \in HttpOutcomes :
         saveCall' = [saveCall EXCEPT
                          !.at = IF out = "ok" THEN AfterGist ELSE GistCatch,
                          !.sent = @ \cup {"patchData"},
                          !.remote = IF out = "ok" THEN "ok" ELSE "failed",
                          !.gistFile = IF out = "ok" THEN saveCall.allOffers ELSE @]
    /\ UNCHANGED <<runVars, storeVars, route, parseCall, loadCall, genCall, mergeCall>>

\* await writeFile(metadataPath, ...) in its own try/catch
SaveMeta ==
    /\ saveCall.at = "meta"
    /\ \E ok \in BOOLEAN :
         /\ metaFile' = IF ok THEN Metadata(saveCall.allOffers, saveCall.cursor)
                        ELSE metaFile
         /\ saveCall' = [saveCall EXCEPT
                             !.at = IF saveCall.gistEnv THEN "patchMeta" ELSE "returned",
                             !.meta = IF ok THEN "ok" ELSE "failed"]
    /\ UNCHANGED <<runVars, dataFile, dataTorn, route, parseCall, loadCall, genCall, mergeCall>>

\* PATCH /gists/GIST_ID with .leetoffer_metadata.json; the response is not
\* looked at
GistPatchMeta ==
    /\ saveCall.at = "patchMeta"
    /\ \E out \in HttpOutcomes :
         saveCall' = [saveCall EXCEPT
                          !.at = "returned",
                          !.sent = @ \cup {"patchMeta"},
                          !.gistMeta = IF out = "ok"
                                       THEN Metadata(saveCall.allOffers, saveCall.cursor)
                                       ELSE @]
    /\ UNCHANGED <<runVars, storeVars, route, parseCall, loadCall, genCall, mergeCall>>

\* GET /api/cron after saveData: run() returns its counts and the route
\* answers success, or run() rejects and the route answers 500 with error
\* and details
Responds ==
    /\ saveCall.at \in {"returned", "threw"}
    /\ saveCall.response = NoResponse
    /\ saveCall' = [saveCall EXCEPT
                        !.response = IF saveCall.at = "returned"
                                     THEN [status |-> 200, success |-> TRUE]
                                     ELSE [status |-> 500, success |-> FALSE]]
    /\ UNCHANGED <<runVars, storeVars, route, parseCall, loadCall, genCall, mergeCall>>

SaveNext ==
    \/ SaveLocal
    \/ GistRead
    \/ GistUser
    \/ GistPatch
    \/ SaveMeta
    \/ GistPatchMeta
    \/ Responds

SaveSpec == SaveInit /\ [][SaveNext]_vars

(***************************************************************************)
(* The trigger endpoints: GET of the route that runs packages/leetcomp and *)
(* GET of /api/cron, which runs packages/leetoffer.  route is              *)
(*   secret     CRON_SECRET is set                                         *)
(*   requests   the requests received so far, each with                    *)
(*     endpoint    the package its route runs                              *)
(*     auth        its authorization header: "none", "bearer" (Bearer and  *)
(*                 the configured secret) or "other"                       *)
(*     vercelCron  it carries x-vercel-cron: 1                             *)
(*     at          "running" (in run(), no model request in flight),       *)
(*                 "calling" (run() awaits a model request) or "answered"  *)
(*     started     run() was called for it                                 *)
(*     status      of the response, 0 before it is sent                    *)
(* The server handles the requests concurrently: each await of a handler   *)
(* lets the others go on.                                                  *)
(***************************************************************************)
MaxRequests == 2

Headers(secret) ==
    { [endpoint |-> e, auth |-> a, vercelCron |-> v] :
         e \in {"leetcomp", "leetoffer"},
         a \in IF secret THEN {"none", "bearer", "other"} ELSE {"none", "other"},
         v \in BOOLEAN }

CronInit ==
    /\ InitRun
    /\ impl = "leetoffer"
    /\ apiKey
    /\ votedDown = 1
    /\ saveCall = NoSaveCall
    /\ route \in { [secret |-> sc, requests |-> << >>] : sc \in BOOLEAN }
    /\ parseCall = NoParseCall
    /\ loadCall = NoLoadCall
    /\ genCall = NoGenCall
    /\ mergeCall = NoMergeCall

\* a check that wants a token and does not look at it
DeniedUnlessAnyToken(endpoint, cronSecret, auth, vercelCron) ==
    cronSecret /\ auth = "none" /\ ~vercelCron

\* the request is answered 401 before run() is called
Denied(endpoint, cronSecret, auth, vercelCron) ==
    IF endpoint = "leetcomp"
    THEN cronSecret /\ auth # "bearer"
    ELSE LET isVercelCron == vercelCron
             hasValidSecret == cronSecret /\ auth = "bearer"
         IN  (~isVercelCron /\ ~hasValidSecret) /\ (cronSecret \/ ~isVercelCron)

\* GET, up to its first await or its return
Get ==
    /\ Len(route.requests) < MaxRequests
    /\ \E hd \in Headers(route.secret) :
         LET denied == Denied(hd.endpoint, route.secret, hd.auth, hd.vercelCron)
             req == [endpoint |-> hd.endpoint, auth |-> hd.auth,
                     vercelCron |-> hd.vercelCron,
                     at |-> IF denied THEN "answered" ELSE "running",
                     started |-> ~denied,
                     status |-> IF denied THEN 401 ELSE 0]
         IN  route' = [route EXCEPT !.requests = Append(@, req)]
    /\ UNCHANGED <<runVars, storeVars, saveCall, parseCall, loadCall, genCall, mergeCall>>

\* run() of a request reaches await parsePost(post): a model request is sent
RunCalls ==
    /\ \E i \in DOMAIN route.requests :
         /\ route.requests[i].at = "running"
         /\ route' = [route EXCEPT !.requests[i].at = "calling"]
    /\ UNCHANGED <<runVars, storeVars, saveCall, parseCall, loadCall, genCall, mergeCall>>

\* the model request of a run is settled
RunResumes ==
    /\ \E i \in DOMAIN route.requests :
         /\ route.requests[i].at = "calling"
         /\ route' = [route EXCEPT !.requests[i].at = "running"]
    /\ UNCHANGED <<runVars, storeVars, saveCall, parseCall, loadCall, genCall, mergeCall>>

\* run() returns or, in packages/leetcomp, rejects; the response is sent
RunSettles ==
    /\ \E i \in DOMAIN route.requests :
         /\ route.requests[i].at = "running"
         /\ \E st \in IF route.requests[i].endpoint = "leetcomp" THEN {200, 500} ELSE {200} :
              route' = [route EXCEPT !.requests[i].at = "answered",
                                     !.requests[i].status = st]
    /\ UNCHANGED <<runVars, storeVars, saveCall, parseCall, loadCall, genCall, mergeCall>>

CronNext ==
    \/ Get
    \/ RunCalls
    \/ RunResumes
    \/ RunSettles

CronSpec == CronInit /\ [][CronNext]_vars

(***************************************************************************)
(* parsePost on one response text.  parseCall is the text and, once the    *)
(* try block has returned, what it returned.                               *)
(***************************************************************************)
MaxAnswerLen == 3

\* an element that ParsedOfferSchema rejects
OfferBadVisa == [company |-> <<"Acme">>, role |-> NULLS, yoe |-> NULLN,
                 base_offer |-> NULLN, total_offer |-> <<100>>,
                 visa_sponsorship |-> "maybe"]

Elements == {OfferCo, OfferTot, OfferNone, OfferZero, OfferNeg, OfferBadVisa}

RECURSIVE Lists(_)
Lists(n) ==
    IF n = 0 THEN { << >> }
    ELSE LET shorter == Lists(n - 1)
         IN  shorter \cup { Append(l, e) : l \in { x \in shorter : Len(x) = n - 1 },
                                           e \in Elements }

\* the texts a response may carry
ResponseTexts ==
    { [kind |-> k, offers |-> << >>] : k \in {"nofence", "badjson", "falsy", "badshape"} }
    \cup { [kind |-> "array", offers |-> l] : l \in Lists(MaxAnswerLen) }

ParseInit ==
    /\ InitRun
    /\ impl = "leetoffer"
    /\ apiKey
    /\ votedDown = 1
    /\ saveCall = NoSaveCall
    /\ route = NoRoute
    /\ parseCall \in { [at |-> "text", text |-> t, returned |-> Null] : t \in ResponseTexts }
    /\ loadCall = NoLoadCall
    /\ genCall = NoGenCall
    /\ mergeCall = NoMergeCall

\* the try block of parsePost, from response.text() to its return
ParsePostReturns ==
    /\ parseCall.at = "text"
    /\ parseCall' = [parseCall EXCEPT !.at = "returned",
                                      !.returned = ReturnOf(parseCall.text)]
    /\ UNCHANGED <<runVars, storeVars, saveCall, route, loadCall, genCall, mergeCall>>

ParseNext == ParsePostReturns

ParseSpec == ParseInit /\ [][ParseNext]_vars

(***************************************************************************)
(* loadExistingData of packages/leetoffer with the remote backup, one step *)
(* per await.  The local store is dataFile, dataTorn and metaFile;         *)
(* loadCall is                                                             *)
(*   at          the await it is at, or "returned"                         *)
(*   gistId      GIST_ID is set                                            *)
(*   gistData    parsed_comps.json of the Gist: "absent", "bad" (content   *)
(*               that JSON.parse rejects) or "ok" with its offers          *)
(*   gistCursor  lastPostId of .leetoffer_metadata.json of the Gist, if    *)
(*               the file is there                                         *)
(*   existingOffers, lastPostId   the locals of loadExistingData           *)
(*   gistRead    how the request to the Gist ended, "none" if not sent     *)
(*   metaRead    the local cursor file was read                            *)
(*   maxPosts    what run() hands to getLatestPosts, 0 before              *)
(***************************************************************************)
StoredOffers == Stamp(<<OfferCo>>, 1)
BackupOffers == Stamp(<<OfferCo, OfferTot>>, 1)

LoadCalls ==
    { [at |-> "local", gistId |-> g, gistData |-> d, gistCursor |-> c,
       existingOffers |-> << >>, lastPostId |-> Undefined,
       gistRead |-> "none", metaRead |-> FALSE, maxPosts |-> 0] :
         g \in BOOLEAN,
         d \in { [state |-> "absent", offers |-> << >>],
                 [state |-> "bad", offers |-> << >>],
                 [state |-> "ok", offers |-> << >>],
                 [state |-> "ok", offers |-> BackupOffers] },
         c \in {Undefined, <<2>>} }

LoadInit ==
    /\ InitProcess
    /\ impl = "leetoffer"
    /\ apiKey
    /\ votedDown = 1
    /\ dataFile \in { << >>, StoredOffers }
    /\ dataTorn \in IF dataFile = << >> THEN BOOLEAN ELSE {FALSE}
    /\ metaFile \in { NoMeta, Metadata(StoredOffers, <<1>>) }
    /\ saveCall = NoSaveCall
    /\ route = NoRoute
    /\ parseCall = NoParseCall
    /\ loadCall \in LoadCalls
    /\ genCall = NoGenCall
    /\ mergeCall = NoMergeCall

\* a fallback that is taken whenever a Gist is configured
NeedsGistAlways(offers, gistId) == gistId

\* "Fallback to Gist if local file is empty or doesn't exist"
NeedsGist(offers, gistId) == Len(offers) = 0 /\ gistId

\* "Load from local file first"
LoadLocal ==
    /\ loadCall.at = "local"
    /\ LET offers == loadExistingData.offers
       IN  loadCall' = [loadCall EXCEPT
                            !.existingOffers = offers,
                            !.at = IF NeedsGist(offers, loadCall.gistId)
                                   THEN "gist" ELSE "meta"]
    /\ UNCHANGED <<runVars, storeVars, saveCall, route, parseCall, genCall, mergeCall>>

\* GET /gists/GIST_ID and what is made of the answer; a dataset that
\* JSON.parse rejects throws into the catch, past the metadata
LoadGist ==
    /\ loadCall.at = "gist"
    /\ \E out \in HttpOutcomes :
         LET d == loadCall.gistData
             parsed == out = "ok" /\ d.state # "bad"
         IN  loadCall' = [loadCall EXCEPT
                              !.at = "meta",
                              !.gistRead = out,
                              !.existingOffers = IF out = "ok" /\ d.state = "ok"
                                                 THEN d.offers ELSE @,
                              !.lastPostId = IF parsed THEN loadCall.gistCursor ELSE @]
    /\ UNCHANGED <<runVars, storeVars, saveCall, route, parseCall, genCall, mergeCall>>

\* "Load metadata from local file if not already loaded from Gist", the
\* return, and isIncremental ? 500 : 2000 of run()
LoadMeta ==
    /\ loadCall.at = "meta"
    /\ \E ok \in BOOLEAN :
         LET reads == loadCall.lastPostId = Undefined /\ metaFile # NoMeta
             lastPostId_ == IF reads /\ ok THEN metaFile.lastPostId
                            ELSE loadCall.lastPostId
             isIncremental == lastPostId_ # Undefined
         IN  loadCall' = [loadCall EXCEPT
                              !.at = "returned",
                              !.metaRead = reads,
                              !.lastPostId = lastPostId_,
                              !.maxPosts = IF isIncremental THEN MaxPostsIncremental
                                           ELSE MaxPostsFull]
    /\ UNCHANGED <<runVars, storeVars, saveCall, route, parseCall, genCall, mergeCall>>

LoadNext ==
    \/ LoadLocal
    \/ LoadGist
    \/ LoadMeta

LoadSpec == LoadInit /\ [][LoadNext]_vars

(***************************************************************************)
(* getLatestPosts consumed to its end, one step per await.  genCall is     *)
(*   at            "while", "for", "content", "finished" or "threw"        *)
(*   endless       the listing never runs out of full pages                *)
(*   top           the newest id of a listing that does run out            *)
(*   lastPostId, maxPosts   the arguments                                  *)
(*   skip, posts, idx, totalFetched, postsProcessed, originalPostCount,    *)
(*   foundLastPost the locals (idx is the position of the for loop)        *)
(*   yielded       the number of posts the consumer received               *)
(*   failed        the number of posts whose body could not be fetched     *)
(*   end           why the sequence ended, "none" before                   *)
(***************************************************************************)
\* the newest id of the endless listing, above every id a sequence reaches
EndlessTop == first * (MaxPostsFull + 2)

\* one page of the endless listing: the pinned post, then ids going down
EndlessPage(sk) ==
    [i \in 1..first |-> IF sk + i = 1 THEN 0 ELSE EndlessTop + 2 - (sk + i)]

GenCursors == {Undefined, <<1>>, <<NumPosts - 1>>, <<EndlessTop - 2>>}

GenCalls ==
    { [at |-> "while", endless |-> e, top |-> t, lastPostId |-> c, maxPosts |-> m,
       skip |-> 0, posts |-> << >>, idx |-> 1, totalFetched |-> 0,
       postsProcessed |-> 0, originalPostCount |-> 0, foundLastPost |-> FALSE,
       yielded |-> 0, failed |-> 0, end |-> "none"] :
         e \in BOOLEAN, t \in 0..NumPosts, c \in GenCursors, m \in 0..MaxPostsFull }

GenInit ==
    /\ InitRun
    /\ impl = "leetoffer"
    /\ apiKey
    /\ votedDown = 1
    /\ saveCall = NoSaveCall
    /\ route = NoRoute
    /\ parseCall = NoParseCall
    /\ loadCall = NoLoadCall
    /\ genCall \in { c \in GenCalls : c.endless => c.top = 0 }
    /\ mergeCall = NoMergeCall

\* a limit that lets one post too many through
FullOffByOne(total, max) == total > max

\* totalFetched >= MAX_POSTS
Full(total, max) == total >= max

\* the break after the for loop
EndOfData(original, processed) ==
    original < first \/ (processed = 0 /\ original > 0)

\* the condition of the while loop and the page request
WhileLoop ==
    /\ genCall.at = "while"
    /\ IF Full(genCall.totalFetched, genCall.maxPosts) \/ genCall.foundLastPost
       THEN genCall' = [genCall EXCEPT
                            !.at = "finished",
                            !.end = IF genCall.foundLastPost THEN "cursor" ELSE "maxPosts"]
       ELSE \E ok \in BOOLEAN :
              LET edges == IF genCall.endless THEN EndlessPage(genCall.skip)
                           ELSE PageOf(genCall.top, genCall.skip)
              IN  IF ~ok
                  THEN genCall' = [genCall EXCEPT !.at = "threw", !.end = "request"]
                  ELSE IF Len(edges) = 0
                  THEN genCall' = [genCall EXCEPT !.at = "finished", !.end = "empty"]
                  ELSE genCall' = [genCall EXCEPT
                                       !.at = "for",
                                       !.originalPostCount = Len(edges),
                                       !.posts = Batch(edges, genCall.skip),
                                       !.idx = 1,
                                       !.postsProcessed = 0]
    /\ UNCHANGED <<runVars, storeVars, saveCall, route, parseCall, loadCall, mergeCall>>

\* the head of the for loop, and what follows the loop
ForLoop ==
    /\ genCall.at = "for"
    /\ LET more == genCall.idx <= Len(genCall.posts)
           full == Full(genCall.totalFetched, genCall.maxPosts)
           found == /\ more
                    /\ ~full
                    /\ genCall.lastPostId # Undefined
                    /\ genCall.posts[genCall.idx] <= genCall.lastPostId[1]
       IN  IF more /\ ~full /\ ~found
           THEN genCall' = [genCall EXCEPT !.at = "content"]
           ELSE IF EndOfData(genCall.originalPostCount, genCall.postsProcessed)
           THEN genCall' = [genCall EXCEPT
                                !.at = "finished",
                                !.foundLastPost = found,
                                !.end = IF genCall.originalPostCount < first
                                        THEN "short" ELSE "noneAdmitted"]
           ELSE genCall' = [genCall EXCEPT
                                !.at = "while",
                                !.foundLastPost = found,
                                !.skip = @ + first]
    /\ UNCHANGED <<runVars, storeVars, saveCall, route, parseCall, loadCall, mergeCall>>

\* getPostContent settles: the post is yielded and the consumer comes back
\* for the next one, or the post is skipped
Yield ==
    /\ genCall.at = "content"
    /\ \E ok \in BOOLEAN :
         IF ok
         THEN genCall' = [genCall EXCEPT
                              !.at = "for",
                              !.yielded = @ + 1,
                              !.totalFetched = @ + 1,
                              !.postsProcessed = @ + 1,
                              !.idx = @ + 1]
         ELSE genCall' = [genCall EXCEPT !.at = "for", !.failed = @ + 1, !.idx = @ + 1]
    /\ UNCHANGED <<runVars, storeVars, saveCall, route, parseCall, loadCall, mergeCall>>

ConsumeNext ==
    \/ WhileLoop
    \/ ForLoop
    \/ Yield

\* every request is answered or fails, and the consumer asks for the next
\* post each time it is handed one
GenSpec == GenInit /\ [][ConsumeNext]_vars /\ WF_vars(ConsumeNext)

(***************************************************************************)
(* The merge of run() on its own.  A string is the sequence of its pieces, *)
(* so that a company or a role may hold the separator of the key.          *)
(* mergeCall is                                                            *)
(*   at        "merge" before, "saved" after                               *)
(*   existing  the loaded dataset                                          *)
(*   new       the offers accumulated by the run                           *)
(*   unique    uniqueNewOffers, << >> before                               *)
(***************************************************************************)
Companies == { NULLS, <<"null">>, <<"a">>, <<"a", "-", "b">> }
Roles == { NULLS, <<"c">>, <<"b", "-", "c">> }
Totals == { NULLN, <<1>> }

\* the offers of one post and of its neighbour
KeyedOffers ==
    { [company |-> c, role |-> r, yoe |-> NULLN, base_offer |-> NULLN,
       total_offer |-> t, post_id |-> p] :
         c \in Companies, r \in Roles, t \in Totals, p \in 1..2 }

MergeInit ==
    /\ InitRun
    /\ impl = "leetoffer"
    /\ apiKey
    /\ votedDown = 1
    /\ saveCall = NoSaveCall
    /\ route = NoRoute
    /\ parseCall = NoParseCall
    /\ loadCall = NoLoadCall
    /\ genCall = NoGenCall
    /\ mergeCall \in { [at |-> "merge", existing |-> <<e>>, new |-> <<n>>,
                        unique |-> << >>] : e \in KeyedOffers, n \in KeyedOffers }

\* "Merge new offers with existing ones"
Merges ==
    /\ mergeCall.at = "merge"
    /\ mergeCall' = [mergeCall EXCEPT
                         !.at = "saved",
                         !.unique = uniqueNewOffers(mergeCall.existing, mergeCall.new)]
    /\ UNCHANGED <<runVars, storeVars, saveCall, route, parseCall, loadCall, genCall>>

MergeNext == Merges

MergeSpec == MergeInit /\ [][MergeNext]_vars

(***************************************************************************)
(* Properties.                                                             *)
(***************************************************************************)
Exhausted == {"cursor", "endOfData"}

\* C1: after a run that processed at least one post, the cursor handed to
\* the store is the highest post id among the posts processed in that run.
C1_CursorIsHighestProcessed ==
    (pc = "done" /\ h.clean /\ h.processed # {})
        => h.cursorArg = <<SetMax(h.processed)>>

\* C2: a run that starts from the cursor persisted by the run before pulls
\* no post that the run before has processed.
C2_NoPostProcessedTwice ==
    (h.clean /\ h.prev.cursorWritten) => h.processed \cap h.prev.processed = {}

\* C3: after an early stop on the budget or the quota, the posts the source
\* had not delivered are delivered by a later run: when a run has consumed
\* the whole sequence of the source, every post listed has been processed by
\* some run.
C3_RemainingPostsProcessedLater ==
    (pc = "done" /\ h.clean /\ h.stop \in Exhausted) => (1..h.top) \subseteq h.ever

\* C4: a run starts at most MAX_DAILY_API_CALLS parsePost calls, its counter
\* counts them, and the stop on the budget is no error: the run merges,
\* saves and returns its counts.
C4_BudgetCap ==
    /\ h.parseCalls <= MAX_DAILY_API_CALLS
    /\ apiCallCount = h.parseCalls
    /\ h.stop = "budget" =>
         /\ h.parseCalls = MAX_DAILY_API_CALLS
         /\ pc \in {"merge", "done", "failed", "exited"}
         /\ (h.faults = 0 => pc \in {"merge", "done"})
         /\ (pc = "done" => result.returned /\ h.saves >= 1)

C4_Witness ==
    /\ h.stop = "budget"
    /\ pc = "done"
    /\ h.faults = 0
    /\ h.parseCalls = MAX_DAILY_API_CALLS

\* C5: the requests a run sends to the model provider, retries included,
\* never exceed the budget.
C5_RequestsWithinBudget == h.requests <= MAX_DAILY_API_CALLS

\* C6: the parsePost calls of all the runs of one day never exceed the
\* budget.
C6_DailyBudget == h.callsToday <= MAX_DAILY_API_CALLS

\* C7: a 429 with a quota signal on the first request of parsePost raises
\* QUOTA_EXCEEDED after that one request, in both extraction clients.
C7_QuotaOnFirstAttemptRaises ==
    (h.lastParse.cause = "quota429" /\ h.lastParse.requests = 1)
        => h.lastParse.outcome = "QUOTA_EXCEEDED"

\* C8: when parsePost has raised QUOTA_EXCEEDED the loop is left at once:
\* no further post is pulled and no further request is sent in that run,
\* run() does not fail for it, and the run merges, saves and returns.
C8_QuotaStopsLoop ==
    /\ [](h.stop = "quota" =>
            /\ pc \in {"merge", "done", "failed"}
            /\ (pc = "failed" => h.faults > 0)
            /\ (pc = "done" => result.returned /\ h.saves = 1))
    /\ [][(h.stop = "quota" /\ h'.runNo = h.runNo) =>
            /\ h'.processed = h.processed
            /\ h'.parseCalls = h.parseCalls
            /\ h'.requests = h.requests
            /\ newParsedOffers' = newParsedOffers
            /\ pc' \in {"done", "failed"}]_vars

C8_Witness ==
    /\ h.stop = "quota"
    /\ pc = "done"
    /\ result.returned
    /\ h.lastParse = NoParse

Backoff(attempt) == CASE attempt = 0 -> 2 [] attempt = 1 -> 4 [] attempt = 2 -> 8

\* C9: parsePost sends at most 4 requests for a post (3 retries); the delay
\* before the retry that follows attempt n is the server's suggestion when
\* there is one and 2, 4, 8 seconds for n = 0, 1, 2 otherwise; a 429 on the
\* fourth request makes parsePost return null.
C9_RetryBackoff ==
    /\ h.postRequests <= 4
    /\ h.lastParse.requests <= 4
    /\ h.postRequests > 1 =>
         /\ h.lastWait.attempt = h.postRequests - 2
         /\ h.lastWait.seconds = IF h.lastWait.suggested # NULLN
                                 THEN h.lastWait.suggested[1]
                                 ELSE Backoff(h.lastWait.attempt)
    /\ (h.lastParse.cause = "rate429" /\ h.lastParse.requests = 4)
         => h.lastParse.outcome = "null"
    /\ h.lastParse.cause = "rate429" => h.lastParse.outcome = "null"

C9_Witness ==
    /\ h.lastParse.cause = "rate429"
    /\ h.lastParse.requests = 4
    /\ h.lastParse.outcome = "null"
    /\ h.lastWait.seconds = 8

\* C10: a failure of the model call that is no 429 makes parsePost return
\* null; QUOTA_EXCEEDED, raised on a 429 only, is the one exception that
\* leaves parsePost; the loop goes on after the failure and ends only when
\* the source has no further post.
C10_OtherErrorsReturnNull ==
    /\ [](/\ h.lastParse.cause \in {"other", "malformed"} =>
                (h.lastParse.outcome = "null" /\ pc = "gen" /\ h.stop = "none")
          /\ h.lastParse.outcome = "QUOTA_EXCEEDED" => h.lastParse.cause = "quota429")
    /\ [][(h.lastParse.cause \in {"other", "malformed"} /\ ~handler.active) =>
            \/ pc' \in {"content", "page"}
            \/ pc' = "merge" /\ h'.stop \in Exhausted \cup {"maxPosts"}]_vars

C10_Witness ==
    /\ h.lastParse.cause = "other"
    /\ h.lastParse.outcome = "null"
    /\ pc = "gen"
    /\ idx <= Len(posts)

\* C11: without the API key run() fails at startup: no run gets as far as a
\* request to the forum, no post is counted as processed, nothing is saved
\* and no cursor is written.
C11_MissingKeyIsFatalAtStartup ==
    (~apiKey /\ h.runNo > 0) =>
        /\ pc = "failed"
        /\ h.processed = {}
        /\ h.saves = 0
        /\ metaFile = NoMeta

\* the offers of a sequence
Range(seq) == { seq[i] : i \in DOMAIN seq }

\* the offer has a company, or one of its compensations is not null
Present(o) == o.company # NULLS \/ o.base_offer # NULLN \/ o.total_offer # NULLN

\* the offer has a non-empty company, or one of its compensations is a
\* number other than 0
Usable(o) ==
    \/ o.company # NULLS /\ o.company # << >>
    \/ o.base_offer # NULLN /\ o.base_offer # <<0>>
    \/ o.total_offer # NULLN /\ o.total_offer # <<0>>

\* C12 as stated: parsePost returns exactly the listed offers that have a
\* company or a compensation that is present (not null), and no other offer
\* is in the accumulator or in the saved dataset.
C12_FilterAsStated ==
    /\ h.lastParse.cause = "ok" =>
            h.lastParse.returned = SelectSeq(h.lastParse.answer, Present)
    /\ \A o \in Range(newParsedOffers) \cup Range(dataFile) : Present(o)

\* C12, amended: the filter accepts exactly the offers with a non-empty
\* company or a compensation that is a number other than 0 (a compensation
\* of 0 counts as absent); the offer with nothing is rejected, the offer
\* with only a company and the offer with only a total are accepted; no
\* offer that fails the filter is in the accumulator or the saved dataset.
C12_ValidityFilter ==
    /\ h.lastParse.cause = "ok" =>
            h.lastParse.returned = SelectSeq(h.lastParse.answer, Usable)
    /\ ~isValidOffer(OfferNone) /\ isValidOffer(OfferCo) /\ isValidOffer(OfferTot)
    /\ pc = "merge" => \A o \in Range(newParsedOffers) : Usable(o)
    /\ pc \in {"done", "exited"} => \A o \in Range(dataFile) : Usable(o)

C12_Witness ==
    /\ h.lastParse.cause = "ok"
    /\ h.lastParse.answer = AnswerMixed
    /\ h.lastParse.returned = <<OfferCo, OfferTot, OfferNeg>>
    /\ Len(newParsedOffers) >= 3

NonNegativeOrAbsent(n) == n = NULLN \/ n[1] >= 0
PositiveOrAbsent(n) == n = NULLN \/ n[1] > 0

WellFormed(o) ==
    /\ NonNegativeOrAbsent(o.yoe)
    /\ PositiveOrAbsent(o.base_offer)
    /\ PositiveOrAbsent(o.total_offer)

\* C13: every offer parsePost returns, and every offer of the accumulator
\* and of the saved dataset, has years of experience absent or >= 0 and
\* base and total compensation each absent or > 0.
C13_NumbersInRange ==
    \A o \in Range(h.lastParse.returned) \cup Range(newParsedOffers)
                \cup Range(dataFile) : WellFormed(o)

\* no two offers of the sequence have the same uniqueness key
UniqueKeys(seq) ==
    \A i, j \in DOMAIN seq : KeyOf(seq[i]) = KeyOf(seq[j]) => i = j

\* C14: when the dataset a run loaded has no two offers with the same key
\* (company, role, total_offer, post_id), neither has the dataset on the
\* store, whether saved by that run or still the loaded one.
C14_SavedDatasetHasUniqueKeys ==
    UniqueKeys(existingOffers) => UniqueKeys(dataFile)

Keys(seq) == { KeyOf(seq[i]) : i \in DOMAIN seq }

\* C15: for the loaded dataset and the batch that a run is about to merge,
\* merging the batch into the result of merging it once gives the result of
\* merging it once, and an offer whose key is in the dataset is not added.
C15_MergeIdempotent ==
    LET once == Merge(existingOffers, newParsedOffers)
        twice == Merge(once, newParsedOffers)
    IN  pc = "merge" =>
        /\ twice = once
        /\ Len(twice) <= Len(once)
        /\ \A o \in Range(uniqueNewOffers(existingOffers, newParsedOffers)) :
               KeyOf(o) \notin Keys(existingOffers)
        /\ Len(once) - Len(existingOffers)
               = Cardinality({ i \in DOMAIN newParsedOffers :
                      KeyOf(newParsedOffers[i]) \notin Keys(existingOffers) })

C15_Witness ==
    /\ pc = "merge"
    /\ existingOffers # << >>
    /\ Len(uniqueNewOffers(existingOffers, newParsedOffers)) < Len(newParsedOffers)

IsPrefix(p, seq) == Len(p) <= Len(seq) /\ SubSeq(seq, 1, Len(p)) = p

\* C16: the dataset on the store is the dataset the run loaded, unchanged
\* and in its order, followed by new unique offers in the order of the
\* accumulator: all of them after the save of a run without fault, those
\* accumulated when the signal arrived after the save of saveOnExit.
C16_AppendStable ==
    LET u == uniqueNewOffers(existingOffers, newParsedOffers)
    IN  /\ ~dataTorn => IsPrefix(existingOffers, dataFile)
        /\ (pc \in {"done", "exited"} \/ handler.wrote)
               => IsPrefix(dataFile, existingOffers \o u)
        /\ (pc = "done" /\ h.clean) => dataFile = existingOffers \o u

C16_Witness ==
    /\ pc = "done"
    /\ h.clean
    /\ existingOffers # << >>
    /\ Len(dataFile) > Len(existingOffers)
    /\ newParsedOffers # << >>

\* the listed posts that come before the first one with id <= the cursor
\* (the listing is newest first)
BeforeCursor == { id \in 1..h.top : lastPostId = Undefined \/ id > lastPostId[1] }

\* C17: with a cursor c the source requests and yields only posts listed
\* before the first post with id <= c, and when each body is fetched and
\* neither the budget, the quota nor the max-count ends the run early, the
\* run has pulled exactly these posts; the post with id = c is not one.
C17_CursorBoundary ==
    /\ h.processed \subseteq BeforeCursor
    /\ pc \in {"content", "calling"} => posts[idx] \in BeforeCursor
    /\ (pc \in {"merge", "done"} /\ h.clean /\ h.stop \in Exhausted)
            => h.processed = BeforeCursor

\* a run that ends at its cursor, a listed post, having pulled the posts
\* before it
C17_Witness ==
    /\ pc = "merge"
    /\ h.stop = "cursor"
    /\ lastPostId # Undefined
    /\ lastPostId[1] \in 2..(h.top - 1)
    /\ h.processed = (lastPostId[1] + 1)..h.top

\* C18: a post whose body cannot be fetched is skipped and the sequence goes
\* on: when the source has ended its sequence itself, every listed post
\* newer than the cursor has been pulled by the run or is one of the posts
\* whose body failed.
C18_FailedBodySkipsOnePost ==
    (pc = "merge" /\ h.stop \in Exhausted)
        => h.processed \cup h.skipped = BeforeCursor

\* C19: when the process has exited after an interrupt signal that arrived
\* in the loop, and the write of saveOnExit succeeded, the dataset on the
\* store is complete and is the loaded dataset followed by the offers
\* accumulated when the signal arrived, deduplicated against it.
C19_InterruptSafety ==
    (pc = "exited" /\ h.signalSaved)
        => /\ ~dataTorn
           /\ dataFile = Merge(existingOffers, h.atSignal)

\* C20: in both packages an exception that leaves the fetch/extract loop is
\* an early stop: run() does not fail for it, it goes on to the merge and the
\* save, and when the save has written the dataset, the offers accumulated
\* before the exception are in it.
C20_LoopExceptionIsEarlyStop ==
    h.stop = "exception" =>
        /\ pc \in {"merge", "done", "exited"}
        /\ (pc = "done" /\ h.faults = 1) =>
               /\ result.returned
               /\ dataFile = Merge(existingOffers, newParsedOffers)

\* C21: in one run the merged result is written once: when run() has
\* returned or the process has exited, exactly one save was performed, by
\* run() or by saveOnExit and never by both; a signal that arrives when the
\* flag is down starts no save.
C21_MergedResultWrittenOnce ==
    /\ h.saves <= 1
    /\ pc \in {"done", "exited"} => h.saves = 1
    /\ handler.active => ~shouldSaveOnExit

\* C22: the local file and the remote backup are independent sinks of
\* saveData.  saveData never throws; when it has returned, the backup was
\* attempted whenever it is configured, also after a failed local write, and
\* a local write that succeeded is on the store whatever the backup did.
C22_SinksAreIndependent ==
    /\ saveCall.at # "threw"
    /\ saveCall.at = "returned" =>
         /\ saveCall.local \in {"ok", "failed"}
         /\ saveCall.gistEnv => "read" \in saveCall.sent
         /\ saveCall.local = "ok" => dataFile = saveCall.allOffers
         /\ saveCall.local = "failed" => dataFile = << >>

C22_Witness ==
    /\ saveCall.at = "returned"
    /\ saveCall.local = "failed"
    /\ saveCall.allOffers # << >>
    /\ saveCall.gistFile = saveCall.allOffers
    /\ saveCall.gistMeta = NoMeta
    /\ "patchMeta" \in saveCall.sent

\* C23: saveData sends no PATCH to the Gist, for the dataset or for the
\* cursor, unless the owner and the scope of the token were verified.
C23_NoPatchWithoutVerifiedCredential ==
    (saveCall.sent \cap {"patchData", "patchMeta"} # {}) => saveCall.verified

\* C24: the cursor is written, locally or remotely, only by a save whose
\* dataset write succeeded, and the cursor record carries the size of the
\* dataset of that save.
C24_CursorOnlyAfterDatasetSaved ==
    /\ saveCall.local = "failed" =>
         /\ metaFile = NoMeta
         /\ "patchMeta" \notin saveCall.sent
    /\ metaFile # NoMeta => metaFile.totalOffers = Len(saveCall.allOffers)

\* C25: with a secret configured, a request that carries neither the header
\* Authorization: Bearer <secret> nor the signal of the trusted scheduler is
\* answered 401, and run() is not started for it.
C25_SecretRequired ==
    \A i \in DOMAIN route.requests :
        LET r == route.requests[i]
        IN  (route.secret /\ r.auth # "bearer" /\ ~r.vercelCron)
                => (r.status = 401 /\ ~r.started /\ r.at = "answered")

C25_Witness ==
    /\ route.secret
    /\ \E i \in DOMAIN route.requests :
         /\ route.requests[i].endpoint = "leetoffer"
         /\ route.requests[i].auth = "other"
         /\ route.requests[i].status = 401
    /\ \E i \in DOMAIN route.requests :
         /\ route.requests[i].endpoint = "leetoffer"
         /\ route.requests[i].auth = "bearer"
         /\ route.requests[i].status = 200

\* C26: without a secret configured, a GET without any token is accepted
\* and starts the ingestion run.
C26_TokenIsOptional ==
    \A i \in DOMAIN route.requests :
        LET r == route.requests[i]
        IN  (~route.secret /\ r.auth = "none") => (r.started /\ r.status # 401)

\* C27: at no time are two model requests in flight.
C27_NoConcurrentExtraction ==
    Cardinality({ i \in DOMAIN route.requests : route.requests[i].at = "calling" }) <= 1

\* C28: a post with a negative vote count is counted as processed and
\* costs no parsePost call; the counts run() returns are the posts pulled,
\* the posts that gave offers and the new offers of the merge.
C28_NegativeVotesSkipped ==
    /\ h.parseCalls = Cardinality({ id \in h.processed : vote_count(id) >= 0 })
    /\ processedCount = Cardinality(h.processed)
    /\ (pc = "done" /\ result.returned) =>
         /\ result.processed = Cardinality(h.processed)
         /\ result.successful =
                Cardinality({ newParsedOffers[i].post_id : i \in DOMAIN newParsedOffers })
         /\ result.newOffers = Len(uniqueNewOffers(existingOffers, newParsedOffers))

\* no cursor, three posts pulled of which one is voted down, one gives
\* offers and one gives none
C28_Witness ==
    /\ pc = "done"
    /\ lastPostId = Undefined
    /\ h.faults = 0
    /\ Cardinality(h.processed) = 3
    /\ \E id \in h.processed : vote_count(id) < 0
    /\ h.parseCalls = 2
    /\ result.processed = 3
    /\ result.successful = 1
    /\ result.newOffers = Len(newParsedOffers)
    /\ result.newOffers > 1

\* C29: for every response text parsePost returns null or a non-empty list,
\* never an empty list: null when the text has no fenced block, when the
\* block is not JSON, when the payload is not an array of offers (one
\* element of the wrong shape rejects the whole payload) or when no element
\* passes the validity filter; otherwise the elements that pass it, in
\* their order.
C29_ParsePostResult ==
    parseCall.at = "returned" =>
        LET text == parseCall.text
            returned == parseCall.returned
            wellShaped == /\ text.kind = "array"
                          /\ \A i \in DOMAIN text.offers : text.offers[i] # OfferBadVisa
            passing == SelectSeq(text.offers, isValidOffer)
        IN  /\ returned.null \/ Len(returned.offers) > 0
            /\ returned.null <=> (~wellShaped \/ Len(passing) = 0)
            /\ ~returned.null => returned.offers = passing

C29_Witness ==
    /\ parseCall.at = "returned"
    /\ parseCall.text.kind = "array"
    /\ parseCall.text.offers = <<OfferNone, OfferTot, OfferCo>>
    /\ parseCall.returned = List(<<OfferTot, OfferCo>>)

\* C30: getLatestPosts drops the first element of its first page and of no
\* later page: the first post listed is never yielded and its body is never
\* requested, the batch of a later page is the whole page, and when the
\* sequence has run out of data the first post of every later page it
\* fetched was yielded, or its body could not be fetched.
C30_FirstBatchDropsFirst ==
    LET listing == Listing(topId)
        laterPages == { sk \in 1..skip : sk % first = 0 /\ sk < Len(listing) }
    IN  /\ h.runNo > 0 => listing[1] \notin h.processed \cup h.skipped
        /\ pc \in {"gen", "content", "calling"} =>
               posts = IF skip = 0 THEN Tail(PageOf(topId, 0)) ELSE PageOf(topId, skip)
        /\ (pc = "merge" /\ h.stop = "endOfData") =>
               \A sk \in laterPages : listing[sk + 1] \in h.processed \cup h.skipped

C30_Witness ==
    /\ pc = "merge"
    /\ h.stop = "endOfData"
    /\ h.faults = 0
    /\ skip >= first
    /\ Len(Listing(topId)) > first
    /\ Listing(topId)[first + 1] \in h.processed
    /\ Listing(topId)[1] \notin h.processed

\* C31: loadExistingData prefers the local snapshot.  When the local dataset
\* is there and not empty the Gist is not read; when it is absent, unreadable
\* or empty and a Gist is configured and answers, the dataset and the cursor
\* are those of the Gist; the local cursor file is read only when the Gist
\* gave no cursor; and run() asks for the incremental maximum exactly when a
\* cursor was found.
C31_LocalSnapshotPreferred ==
    loadCall.at = "returned" =>
        LET localOffers == IF dataTorn THEN << >> ELSE dataFile
            d == loadCall.gistData
        IN  /\ localOffers # << >> =>
                 /\ loadCall.gistRead = "none"
                 /\ loadCall.existingOffers = localOffers
            /\ (localOffers = << >> /\ loadCall.gistId) => loadCall.gistRead # "none"
            /\ (loadCall.gistRead = "ok" /\ d.state = "ok") =>
                 /\ loadCall.existingOffers = d.offers
                 /\ loadCall.gistCursor # Undefined =>
                        (loadCall.lastPostId = loadCall.gistCursor /\ ~loadCall.metaRead)
            /\ loadCall.metaRead =>
                 ~(loadCall.gistRead = "ok" /\ d.state # "bad"
                       /\ loadCall.gistCursor # Undefined)
            /\ loadCall.maxPosts = IF loadCall.lastPostId # Undefined
                                   THEN MaxPostsIncremental ELSE MaxPostsFull

\* a torn local dataset, and both the dataset and the cursor taken from the
\* Gist although a local cursor file is there
C31_Witness ==
    /\ loadCall.at = "returned"
    /\ dataTorn
    /\ metaFile # NoMeta
    /\ loadCall.existingOffers = BackupOffers
    /\ loadCall.lastPostId = <<2>>
    /\ ~loadCall.metaRead
    /\ loadCall.maxPosts = MaxPostsIncremental

\* C32: the quota check applies to the first attempt only.  QUOTA_EXCEEDED
\* is raised after one request or not at all; a 429 with a quota signal that
\* answers a retried request is retried like a rate limit, and when it
\* answers the last retry parsePost returns null.
C32_QuotaCheckOnFirstAttemptOnly ==
    /\ h.lastParse.outcome = "QUOTA_EXCEEDED" => h.lastParse.requests = 1
    /\ (h.lastParse.cause = "quota429" /\ h.lastParse.requests > 1) =>
         /\ h.lastParse.requests = MaxRetries + 1
         /\ h.lastParse.outcome = "null"
         /\ h.lastParse.returned = NoOffers

C32_Witness ==
    /\ h.lastParse.cause = "quota429"
    /\ h.lastParse.requests = MaxRetries + 1
    /\ h.lastParse.outcome = "null"
    /\ h.stop = "none"

\* C33: whatever the listing, the cursor and maxPosts, a getLatestPosts
\* sequence that is consumed to its end does end, the consumer has received
\* at most maxPosts posts, and only a listing request that failed makes it
\* raise: a short page, an empty page and a page that admits no post finish
\* the sequence.
C33_SequenceTerminates ==
    /\ [](genCall.at # "none" =>
            /\ genCall.yielded <= genCall.maxPosts
            /\ genCall.end \in {"short", "empty", "noneAdmitted"} => genCall.at = "finished")
    /\ <>(genCall.at \in {"finished", "threw"})

\* the endless listing with a body that failed: the limit ended the sequence
C33_Witness ==
    /\ genCall.at = "finished"
    /\ genCall.endless
    /\ genCall.end = "maxPosts"
    /\ genCall.yielded = genCall.maxPosts
    /\ genCall.yielded = MaxPostsFull
    /\ genCall.failed > 0

\* C34: from the step after the interrupt was received until the process
\* has exited, no parsePost call is started and no offer is added to the
\* accumulator of the run.
C34_NoExtractionAfterInterrupt ==
    [][handler.active =>
         /\ h'.parseCalls = h.parseCalls
         /\ newParsedOffers' = newParsedOffers]_vars

\* C35: a save never writes a cursor that names a post whose extraction
\* did not complete: not the post whose parsePost call has just raised
\* QUOTA_EXCEEDED, and not the post whose parsePost call is still in flight
\* when the interrupt handler writes.
C35_CursorCoversCompletedPostsOnly ==
    [][metaFile'.lastPostId # metaFile.lastPostId =>
         /\ ~(/\ h.lastParse.outcome = "QUOTA_EXCEEDED"
              /\ metaFile'.lastPostId = <<h.lastParse.post>>)
         /\ ~(/\ pc = "calling"
              /\ metaFile'.lastPostId = <<posts[idx]>>)]_vars

C37_DatasetNeverShrinks ==
    [][Range(dataFile) \subseteq Range(dataFile')]_vars

\* C38: the endpoint answers success only when the merged dataset was
\* written to the local file or to the remote backup; when both writes
\* failed or were not made, its answer is not a success and not a 2xx.
C38_SuccessMeansPersisted ==
    saveCall.at # "none" =>
      /\ saveCall.response.success =>
           (saveCall.local = "ok" \/ saveCall.remote = "ok")
      /\ (saveCall.response # NoResponse /\ saveCall.local # "ok" /\ saveCall.remote # "ok") =>
           saveCall.response.status >= 300

\* C39: in every state of a run successful <= extraction calls made <=
\* processed, and the counts run() returns are those of the loop, with
\* newOffers <= offers accumulated and totalOffers = size of the loaded
\* dataset + newOffers = size of the dataset handed to saveData.
C39_CountsConsistent ==
    /\ successCount <= apiCallCount
    /\ apiCallCount <= processedCount
    /\ result.returned =>
         /\ result.processed = processedCount
         /\ result.successful = successCount
         /\ result.newOffers <= Len(newParsedOffers)
         /\ result.totalOffers = Len(existingOffers) + result.newOffers
         /\ result.totalOffers = Len(Merge(existingOffers, newParsedOffers))

\* a run that loaded offers has returned, and its merge dropped some of
\* the offers it had accumulated
C39_Witness ==
    /\ result.returned
    /\ Len(existingOffers) > 0
    /\ result.newOffers < Len(newParsedOffers)
    /\ result.successful < result.processed

SameKeyFields(a, b) ==
    /\ a.company = b.company
    /\ a.role = b.role
    /\ a.total_offer = b.total_offer
    /\ a.post_id = b.post_id

\* C40: the merge drops a new offer only when an offer of the loaded
\* dataset has the same company, role, total_offer and post_id.
C40_DropsOnlyIdenticalKeys ==
    mergeCall.at = "saved" =>
        \A i \in DOMAIN mergeCall.new :
            (\A j \in DOMAIN mergeCall.unique : mergeCall.unique[j] # mergeCall.new[i])
                => \E k \in DOMAIN mergeCall.existing :
                       SameKeyFields(mergeCall.existing[k], mergeCall.new[i])

====
